---- MODULE Spec2Model ----
(***************************************************************************)
(* Model of the Merkle tree of src/src/main.rs: MerkleTree::new with       *)
(* build_tree, insert with insert_node, contains with contains_hash, and   *)
(* the SHA-256 hex hasher.                                                 *)
(*                                                                         *)
(* Byte sequences (Vec<u8>) are sequences of atoms.  An atom is either one *)
(* raw byte, or one whole digest text: the 64 ASCII bytes of the lowercase *)
(* hexadecimal SHA-256 of a byte sequence, kept symbolically by its input. *)
(* Two digest atoms are equal exactly when their inputs are equal, which   *)
(* is the collision-free hash; concatenation of parts is concatenation of  *)
(* sequences, as Sha256::input streams its parts into one context.         *)
(***************************************************************************)
EXTENDS Integers, Sequences, FiniteSets, TLC

\* ---------------------------------------------------------------- bounds
MaxBuild == 5
MaxInserts == 4

\* ----------------------------------------------------------------- bytes
RawByte(n) == [kind |-> "raw", val |-> n, input |-> <<>>]

HexDigest(bytes) == [kind |-> "hex", val |-> 0, input |-> bytes]

\* Sha256::new(), Digest::input, Digest::result_str
Sha256New == <<>>

input(hasher, data) == hasher \o data

result_str(hasher) == <<HexDigest(hasher)>>

RECURSIVE feed(_, _)
feed(hasher, datas) ==
    IF datas = <<>> THEN hasher
    ELSE feed(input(hasher, Head(datas)), Tail(datas))

sha256_hasher(datas) == result_str(feed(Sha256New, datas))

\* ----------------------------------------------------------------- nodes
\* Option<Box<MerkleNode>>: None is the empty sequence, Some(n) is <<n>>.
None == <<>>

Some(n) == <<n>>

is_none(o) == o = None

is_some(o) == o # None

unwrap(o) == o[1]

MerkleNode(l, r, h) == [left |-> l, right |-> r, hash |-> h]

create_new_data_node(data) == MerkleNode(None, None, sha256_hasher(<<data>>))

\* ------------------------------------------------------------ build_tree
RECURSIVE build_tree_panics(_)
build_tree_panics(nodes) ==
    IF Len(nodes) <= 1 THEN FALSE
    ELSE LET mid_node == Len(nodes) \div 2
             l == SubSeq(nodes, 1, mid_node)
             r == SubSeq(nodes, mid_node + 1, Len(nodes))
         IN  \/ build_tree_panics(l)
             \/ build_tree_panics(r)
             \/ l = <<>>
             \/ r = <<>>

RECURSIVE build_tree_ceil_mid(_)
build_tree_ceil_mid(nodes) ==
    IF nodes = <<>> THEN None
    ELSE IF Len(nodes) = 1 THEN Some(nodes[1])
    ELSE LET mid_node == (Len(nodes) + 1) \div 2
             left_child == build_tree_ceil_mid(SubSeq(nodes, 1, mid_node))
             right_child == build_tree_ceil_mid(SubSeq(nodes, mid_node + 1, Len(nodes)))
             hash == sha256_hasher(<<unwrap(left_child).hash, unwrap(right_child).hash>>)
         IN  Some(MerkleNode(left_child, right_child, hash))

RECURSIVE build_tree_left_only(_)
build_tree_left_only(nodes) ==
    IF nodes = <<>> THEN None
    ELSE IF Len(nodes) = 1 THEN Some(nodes[1])
    ELSE LET mid_node == Len(nodes) \div 2
             left_child == build_tree_left_only(SubSeq(nodes, 1, mid_node))
             right_child == build_tree_left_only(SubSeq(nodes, mid_node + 1, Len(nodes)))
             hash == sha256_hasher(<<unwrap(left_child).hash>>)
         IN  Some(MerkleNode(left_child, right_child, hash))

RECURSIVE build_tree(_)
build_tree(nodes) ==
    IF nodes = <<>> THEN None
    ELSE IF Len(nodes) = 1 THEN Some(nodes[1])
    ELSE LET mid_node == Len(nodes) \div 2
             left_child == build_tree(SubSeq(nodes, 1, mid_node))
             right_child == build_tree(SubSeq(nodes, mid_node + 1, Len(nodes)))
             hash == sha256_hasher(<<unwrap(left_child).hash, unwrap(right_child).hash>>)
         IN  Some(MerkleNode(left_child, right_child, hash))

\* MerkleTree::new: the leaf nodes of the blocks, reduced by build_tree
leaf_nodes(datas) == [i \in 1..Len(datas) |-> create_new_data_node(datas[i])]

new(datas) == build_tree(leaf_nodes(datas))

\* ----------------------------------------------------------- insert_node
\* the else-arm of line 77: the left slot is absent, the right one is taken
RECURSIVE right_fallback_taken(_)
right_fallback_taken(current_root) ==
    IF is_none(current_root) THEN FALSE
    ELSE LET node == unwrap(current_root)
         IN  IF is_none(node.left) /\ is_none(node.right) THEN FALSE
             ELSE IF is_some(node.left) THEN right_fallback_taken(node.left)
             ELSE TRUE

\* the unwraps of lines 84-85 meet an absent child
RECURSIVE insert_node_panics(_)
insert_node_panics(current_root) ==
    IF is_none(current_root) THEN FALSE
    ELSE LET node == unwrap(current_root)
         IN  IF is_none(node.left) /\ is_none(node.right) THEN FALSE
             ELSE IF is_some(node.left)
                  THEN insert_node_panics(node.left) \/ is_none(node.right)
                  ELSE TRUE

RECURSIVE insert_node_stale(_, _)
insert_node_stale(new_node, current_root) ==
    IF is_none(current_root) THEN Some(new_node)
    ELSE LET node == unwrap(current_root)
         IN  IF is_none(node.left) /\ is_none(node.right)
             THEN Some(MerkleNode(Some(node), Some(new_node),
                                  sha256_hasher(<<node.hash, new_node.hash>>)))
             ELSE LET child == insert_node_stale(new_node, node.left)
                  IN  Some(MerkleNode(child, node.right, node.hash))

RECURSIVE insert_node_rightmost(_, _)
insert_node_rightmost(new_node, current_root) ==
    IF is_none(current_root) THEN Some(new_node)
    ELSE LET node == unwrap(current_root)
         IN  IF is_none(node.left) /\ is_none(node.right)
             THEN Some(MerkleNode(Some(node), Some(new_node),
                                  sha256_hasher(<<node.hash, new_node.hash>>)))
             ELSE LET child == insert_node_rightmost(new_node, node.right)
                      hash == sha256_hasher(<<unwrap(node.left).hash, unwrap(child).hash>>)
                  IN  Some(MerkleNode(node.left, child, hash))

RECURSIVE insert_node_unary(_, _)
insert_node_unary(new_node, current_root) ==
    IF is_none(current_root) THEN Some(new_node)
    ELSE LET node == unwrap(current_root)
         IN  IF is_none(node.left) /\ is_none(node.right)
             THEN Some(MerkleNode(Some(new_node), None,
                                  sha256_hasher(<<node.hash, new_node.hash>>)))
             ELSE LET child == insert_node_unary(new_node, node.left)
                      hash == sha256_hasher(<<unwrap(child).hash, unwrap(node.right).hash>>)
                  IN  Some(MerkleNode(child, node.right, hash))

RECURSIVE insert_node_first_rehashed(_, _)
insert_node_first_rehashed(new_node, current_root) ==
    IF is_none(current_root)
    THEN Some(MerkleNode(None, None, sha256_hasher(<<new_node.hash>>)))
    ELSE LET node == unwrap(current_root)
         IN  IF is_none(node.left) /\ is_none(node.right)
             THEN Some(MerkleNode(Some(node), Some(new_node),
                                  sha256_hasher(<<node.hash, new_node.hash>>)))
             ELSE LET child == insert_node_first_rehashed(new_node, node.left)
                      hash == sha256_hasher(<<unwrap(child).hash, unwrap(node.right).hash>>)
                  IN  Some(MerkleNode(child, node.right, hash))

RECURSIVE insert_node_swapped(_, _)
insert_node_swapped(new_node, current_root) ==
    IF is_none(current_root) THEN Some(new_node)
    ELSE LET node == unwrap(current_root)
         IN  IF is_none(node.left) /\ is_none(node.right)
             THEN Some(MerkleNode(Some(new_node), Some(node),
                                  sha256_hasher(<<new_node.hash, node.hash>>)))
             ELSE LET child == insert_node_swapped(new_node, node.left)
                      hash == sha256_hasher(<<unwrap(child).hash, unwrap(node.right).hash>>)
                  IN  Some(MerkleNode(child, node.right, hash))

RECURSIVE insert_node(_, _)
insert_node(new_node, current_root) ==
    IF is_none(current_root) THEN Some(new_node)
    ELSE LET node == unwrap(current_root)
         IN  IF is_none(node.left) /\ is_none(node.right)
             THEN LET hash == sha256_hasher(<<node.hash, new_node.hash>>)
                  IN  Some(MerkleNode(Some(node), Some(new_node), hash))
             ELSE LET go_left == is_some(node.left)
                      child == insert_node(new_node,
                                   IF go_left THEN node.left ELSE node.right)
                      l == IF go_left THEN child ELSE node.left
                      r == IF go_left THEN node.right ELSE child
                      hash == sha256_hasher(<<unwrap(l).hash, unwrap(r).hash>>)
                  IN  Some(MerkleNode(l, r, hash))

\* --------------------------------------------------------- contains_hash
RECURSIVE contains_hash_left_only(_, _)
contains_hash_left_only(node, data_hash) ==
    IF is_none(node) THEN FALSE
    ELSE LET n == unwrap(node)
         IN  IF n.hash = data_hash THEN TRUE
             ELSE contains_hash_left_only(n.left, data_hash)

RECURSIVE contains_hash(_, _)
contains_hash(node, data_hash) ==
    IF is_none(node) THEN FALSE
    ELSE LET n == unwrap(node)
         IN  IF n.hash = data_hash THEN TRUE
             ELSE LET in_left_node == contains_hash(n.left, data_hash)
                      in_right_node == contains_hash(n.right, data_hash)
                  IN  in_left_node \/ in_right_node

contains(tree_root, data) ==
    LET data_hash == sha256_hasher(<<data>>)
    IN  contains_hash(tree_root, data_hash)

\* ---------------------------------------------------------------- inputs
\* the blocks a caller builds from and inserts
Blocks == { <<RawByte(0)>>, <<RawByte(1)>> }

\* a block that is the digest text of one block followed by that of another
Joined(x, y) == sha256_hasher(<<x>>) \o sha256_hasher(<<y>>)

\* the blocks a caller queries: the above, two that are never supplied (the
\* empty one among them), and the 128-byte blocks made of two leaf digests
QueryBlocks ==
    Blocks \cup { <<>>, <<RawByte(0), RawByte(1)>> }
           \cup { Joined(x, y) : x \in Blocks, y \in Blocks }

RECURSIVE SeqsUpTo(_, _)
SeqsUpTo(S, n) ==
    IF n = 0 THEN { <<>> }
    ELSE LET shorter == SeqsUpTo(S, n - 1)
         IN  shorter \cup { Append(s, x) : s \in { t \in shorter : Len(t) = n - 1 }, x \in S }

\* ----------------------------------------------------------------- state
VARIABLES
    root,      \* MerkleTree.root
    datas,     \* the blocks MerkleTree::new was given
    inserted,  \* the blocks given to insert since, in call order
    op,        \* the last operation: "new", "insert" or "contains"
    arg,       \* its block argument (of "insert" and "contains")
    result,    \* the value the last contains returned
    panicked   \* an unwrap met None

vars == <<root, datas, inserted, op, arg, result, panicked>>

Init ==
    /\ datas \in SeqsUpTo(Blocks, MaxBuild)
    /\ panicked = build_tree_panics(leaf_nodes(datas))
    /\ root = IF panicked THEN None ELSE new(datas)
    /\ inserted = <<>>
    /\ op = "new"
    /\ arg = <<>>
    /\ result = FALSE

\* MerkleTree::insert
Insert(data) ==
    /\ ~panicked
    /\ Len(inserted) < MaxInserts
    /\ LET new_node == create_new_data_node(data)
           current_root == root
       IN  IF insert_node_panics(current_root)
           THEN /\ panicked' = TRUE
                /\ root' = None
           ELSE /\ panicked' = FALSE
                /\ root' = insert_node(new_node, current_root)
    /\ inserted' = Append(inserted, data)
    /\ op' = "insert"
    /\ arg' = data
    /\ UNCHANGED <<datas, result>>

\* MerkleTree::contains
Contains(data) ==
    /\ ~panicked
    /\ result' = contains(root, data)
    /\ op' = "contains"
    /\ arg' = data
    /\ UNCHANGED <<root, datas, inserted, panicked>>

Next ==
    \/ \E data \in Blocks : Insert(data)
    \/ \E data \in QueryBlocks : Contains(data)

Spec == Init /\ [][Next]_vars

\* ------------------------------------------- measures used by the claims
IsLeaf(n) == is_none(n.left) /\ is_none(n.right)

IsInternal(n) == is_some(n.left) /\ is_some(n.right)

Max(a, b) == IF a >= b THEN a ELSE b

\* edges on the longest path below the root; a lone leaf has height 0
RECURSIVE Height(_)
Height(o) ==
    IF is_none(o) THEN 0 - 1
    ELSE 1 + Max(Height(unwrap(o).left), Height(unwrap(o).right))

\* the stored hashes of the childless nodes, in in-order
RECURSIVE Leaves(_)
Leaves(o) ==
    IF is_none(o) THEN <<>>
    ELSE IF IsLeaf(unwrap(o)) THEN << unwrap(o).hash >>
    ELSE Leaves(unwrap(o).left) \o Leaves(unwrap(o).right)

\* edges from the root to the leftmost childless node
RECURSIVE LeftDepth(_)
LeftDepth(o) ==
    IF is_none(o) \/ is_none(unwrap(o).left) THEN 0
    ELSE 1 + LeftDepth(unwrap(o).left)

RECURSIVE LeftmostLeaf(_)
LeftmostLeaf(o) ==
    IF is_none(o) \/ is_none(unwrap(o).left) THEN o
    ELSE LeftmostLeaf(unwrap(o).left)

\* the right children of the nodes on the path to the leftmost leaf, top down
RECURSIVE RightSiblings(_)
RightSiblings(o) ==
    IF is_none(o) \/ is_none(unwrap(o).left) THEN <<>>
    ELSE << unwrap(o).right >> \o RightSiblings(unwrap(o).left)

RECURSIVE StrictBinary(_)
StrictBinary(o) ==
    \/ is_none(o)
    \/ IsLeaf(unwrap(o))
    \/ /\ IsInternal(unwrap(o))
       /\ StrictBinary(unwrap(o).left)
       /\ StrictBinary(unwrap(o).right)

RECURSIVE HashesCurrent(_)
HashesCurrent(o) ==
    \/ is_none(o)
    \/ IsLeaf(unwrap(o))
    \/ /\ IsInternal(unwrap(o))
       /\ unwrap(o).hash = sha256_hasher(<< unwrap(unwrap(o).left).hash,
                                            unwrap(unwrap(o).right).hash >>)
       /\ HashesCurrent(unwrap(o).left)
       /\ HashesCurrent(unwrap(o).right)

HeightsClose(n) ==
    LET d == Height(n.left) - Height(n.right) IN d <= 1 /\ d >= 0 - 1

\* every node of the subtree has subtrees whose heights differ by at most 1
RECURSIVE Balanced(_)
Balanced(o) ==
    \/ is_none(o)
    \/ /\ HeightsClose(unwrap(o))
       /\ Balanced(unwrap(o).left)
       /\ Balanced(unwrap(o).right)

\* the same, leaving out the nodes on the path to the leftmost leaf
RECURSIVE BalancedOffLeftPath(_)
BalancedOffLeftPath(o) ==
    \/ is_none(o)
    \/ /\ Balanced(unwrap(o).right)
       /\ BalancedOffLeftPath(unwrap(o).left)

RECURSIVE CeilLog2(_)
CeilLog2(n) == IF n <= 1 THEN 0 ELSE 1 + CeilLog2((n + 1) \div 2)

RECURSIVE Reverse(_)
Reverse(s) == IF s = <<>> THEN <<>> ELSE Append(Reverse(Tail(s)), Head(s))

Digests(blocks) == [i \in 1..Len(blocks) |-> sha256_hasher(<< blocks[i] >>)]

Range(s) == { s[i] : i \in 1..Len(s) }

Supplied == Range(datas) \cup Range(inserted)

\* the blocks of the leaves in in-order: the first block ever supplied, the
\* inserted ones latest first, then the rest of the built ones
BlocksInOrder ==
    IF datas = <<>>
    THEN IF inserted = <<>> THEN <<>>
         ELSE << Head(inserted) >> \o Reverse(Tail(inserted))
    ELSE << Head(datas) >> \o Reverse(inserted) \o Tail(datas)

\* o covers the leaf digests ds, split at Len(ds) \div 2 at every level
RECURSIVE MidpointShaped(_, _)
MidpointShaped(o, ds) ==
    /\ is_some(o)
    /\ IF Len(ds) = 1
       THEN IsLeaf(unwrap(o)) /\ unwrap(o).hash = ds[1]
       ELSE LET m == Len(ds) \div 2
                n == unwrap(o)
            IN  /\ IsInternal(n)
                /\ Len(Leaves(n.left)) = m
                /\ Len(Leaves(n.right)) = Len(ds) - m
                /\ m <= Len(ds) - m
                /\ n.hash = sha256_hasher(<< unwrap(n.left).hash, unwrap(n.right).hash >>)
                /\ MidpointShaped(n.left, SubSeq(ds, 1, m))
                /\ MidpointShaped(n.right, SubSeq(ds, m + 1, Len(ds)))

\* ---------------------------------------------------------------- claims

\* C1: right after insert(t, x), contains(t, x) is true, whatever the tree
\* was (built from any blocks, none included, and inserted into before).
PostInsertMembership ==
    op = "insert" => (~panicked /\ contains(root, arg))

PostInsertMembershipWitness ==
    /\ op = "insert"
    /\ Len(datas) >= 2
    /\ Len(inserted) >= 2
    /\ contains(root, arg)

\* C2: a block y that contains finds before insert(t, x), y # x, is still
\* found after it.
MembershipPreserved ==
    [][ \A y \in QueryBlocks :
          (op' = "insert" /\ inserted' # inserted /\ y # arg' /\ contains(root, y))
             => contains(root', y) ]_vars

\* C3: contains is false for a block that was never supplied and whose leaf
\* digest differs from that of every supplied block.
NegativeMembership ==
    ( /\ op = "contains"
      /\ arg \notin Supplied
      /\ \A s \in Supplied : sha256_hasher(<<arg>>) # sha256_hasher(<<s>>) )
    => result = FALSE

\* C4: two different block sequences of the same length build trees with
\* different root digests.
ChangeSensitivity ==
    op = "new" =>
        \A other \in SeqsUpTo(Blocks, MaxBuild) :
            (Len(other) = Len(datas) /\ other # datas)
                => unwrap(new(other)).hash # unwrap(root).hash

ChangeSensitivityWitness ==
    /\ op = "new"
    /\ Len(datas) = 2
    /\ datas[1] # datas[2]
    /\ unwrap(new(<< datas[2], datas[1] >>)).hash # unwrap(root).hash

\* C5: built from n >= 2 blocks, the tree splits every run of m leaves into
\* the first m \div 2 and the rest, hashes each internal node from its two
\* children, keeps the leaf digests in input order and has height
\* ceil(log2 n).
MidpointBalanced ==
    (op = "new" /\ Len(datas) >= 2) =>
        /\ MidpointShaped(root, Digests(datas))
        /\ Leaves(root) = Digests(datas)
        /\ Height(root) = CeilLog2(Len(datas))

MidpointBalancedWitness ==
    /\ op = "new"
    /\ Len(datas) = 3
    /\ Height(root) = 2
    /\ IsLeaf(unwrap(unwrap(root).left))

\* C6: built from no block the tree has no root and contains is false; the
\* first insert into it, and build from one block, give the childless leaf
\* of that block's digest.
EmptyAndSingle ==
    /\ (datas = <<>> /\ inserted = <<>>) =>
          /\ root = None
          /\ \A q \in QueryBlocks : ~contains(root, q)
          /\ op = "contains" => result = FALSE
    /\ (datas = <<>> /\ Len(inserted) = 1) =>
          /\ root = Some(MerkleNode(None, None, sha256_hasher(<< inserted[1] >>)))
          /\ root = new(<< inserted[1] >>)
    /\ (Len(datas) = 1 /\ inserted = <<>>) =>
          root = Some(MerkleNode(None, None, sha256_hasher(<< datas[1] >>)))

EmptyAndSingleWitness ==
    /\ datas = <<>>
    /\ Len(inserted) = 1
    /\ op = "insert"
    /\ is_some(root)

\* C7, as stated: after any inserts every internal node has subtrees whose
\* heights differ by at most 1.
InsertKeepsBalanced == Balanced(root)

\* C7, amended: after any inserts every internal node that is not on the
\* path from the root to the leftmost leaf has subtrees whose heights differ
\* by at most 1.
InsertKeepsOffPathBalanced == BalancedOffLeftPath(root)

InsertKeepsOffPathBalancedWitness ==
    /\ Len(datas) = 4
    /\ Len(inserted) >= 2
    /\ ~Balanced(root)
    /\ Height(unwrap(root).right) = 1

\* C8: every node has no child or both; no insert takes the right-child
\* fallback and no unwrap meets an absent child.
StrictBinaryInvariant ==
    /\ StrictBinary(root)
    /\ ~panicked
    /\ ~build_tree_panics(leaf_nodes(datas))
    /\ ~right_fallback_taken(root)
    /\ ~insert_node_panics(root)

StrictBinaryWitness ==
    /\ op = "insert"
    /\ Len(datas) = 3
    /\ Len(inserted) = 2
    /\ IsInternal(unwrap(root))

\* C9: every internal node's hash is the digest of its two children's
\* current hashes and every leaf's hash is the digest of its block.
DigestsNeverStale ==
    /\ HashesCurrent(root)
    /\ Leaves(root) = Digests(BlocksInOrder)

DigestsNeverStaleWitness ==
    /\ op = "insert"
    /\ Len(inserted) = 2
    /\ Height(root) >= 3

\* C10: insert into a non-empty tree puts, in place of the leftmost leaf l,
\* an internal node over l and the new leaf, recomputes the hashes on the
\* path to it and keeps every right sibling of that path; the leaf count and
\* the depth of the leftmost leaf grow by 1 and the new leaf is second in
\* in-order.  k inserts into the empty tree give a chain of height k - 1.
InsertEffect ==
    /\ [][ (op' = "insert" /\ inserted' # inserted /\ is_some(root)) =>
             LET leaf == Some(create_new_data_node(arg'))
             IN  /\ LeftmostLeaf(root') = LeftmostLeaf(root)
                 /\ RightSiblings(root') = RightSiblings(root) \o << leaf >>
                 /\ HashesCurrent(root')
                 /\ Len(Leaves(root')) = Len(Leaves(root)) + 1
                 /\ Leaves(root')[2] = unwrap(leaf).hash
                 /\ LeftDepth(root') = LeftDepth(root) + 1 ]_vars
    /\ [] ( (datas = <<>> /\ inserted # <<>>) =>
              /\ Height(root) = Len(inserted) - 1
              /\ LeftDepth(root) = Len(inserted) - 1 )

InsertEffectWitness ==
    /\ datas = <<>>
    /\ Len(inserted) = 3
    /\ Height(root) = 2
    /\ Len(RightSiblings(root)) = 2

====
